---- MODULE Spec2Model ----
(***************************************************************************)
(* A model of plot-elf.py: argument parsing (parse_args), part extraction  *)
(* and filtering (get_parts, filter_parts), the colour registry            *)
(* (get_color), colorize_data, strip_data, padding and the per-file shape  *)
(* computation of plot_elf_files, as driven by main.                       *)
(*                                                                         *)
(* Python strings are sequences of one-character strings, so that          *)
(* startswith, slicing, split and re.match are computed, not assumed.      *)
(***************************************************************************)
EXTENDS Integers, Sequences, FiniteSets, TLC

VARIABLES
    pc,                     \* position of the run
    argv, argi,             \* parse_args: sys.argv[1:] and the loop position
    result,                 \* parse_args: filename -> instance attributes
    current_filename,       \* parse_args: local
    global_strip,           \* parse_args: local
    global_selected_parts,  \* parse_args: local
    selected_parts,         \* the class attribute PlottingOptions.selected_parts
    filenames,              \* main: options.keys(), in insertion order
    options,                \* main: filename -> resolved strip flag
    disk,                   \* the files as they are on disk (external input)
    elf_files,              \* filename -> ElfFileData (byte_data, elf_data)
    idx,                    \* position of the loop over files of the stage
    extracted,              \* get_parts: local `parts` after line 142
    parts,                  \* get_parts: result
    saved_colors,           \* module-level dict saved_colors
    legend_data,            \* colorize_data: result
    max_length,             \* main: local
    shape,                  \* plot_elf_files: (h, w) of each reshaped buffer
    exit_status,            \* process exit status once the run has ended
    exception,              \* the uncaught exception, "" when none
    calls, last_text, last_color   \* get_color driver: calls made, last call

vars == <<pc, argv, argi, result, current_filename, global_strip,
          global_selected_parts, selected_parts, filenames, options, disk,
          elf_files, idx, extracted, parts, saved_colors, legend_data,
          max_length, shape, exit_status, exception, calls, last_text,
          last_color>>

-----------------------------------------------------------------------------
(* Bounds of the model *)

MaxArgs == 4        \* longest argument list explored
MaxSections == 3    \* most sections in one file's section table
MaxCalls == 5       \* most get_color calls in the registry driver

-----------------------------------------------------------------------------
(* Strings *)

Ehdr == <<"E", "h", "d", "r">>
Phdr == <<"P", "h", "d", "r">>
Shdr == <<"S", "h", "d", "r">>
dot_text == <<".", "t", "e", "x", "t">>
dot_bss == <<".", "b", "s", "s">>
dot_comment == <<".", "c", "o", "m", "m", "e", "n", "t">>
empty_name == <<>>

\* str.startswith(prefix)
StartsWith(s, prefix) ==
    /\ Len(s) >= Len(prefix)
    /\ SubSeq(s, 1, Len(prefix)) = prefix

\* str.endswith(suffix)
EndsWith(s, suffix) ==
    /\ Len(s) >= Len(suffix)
    /\ SubSeq(s, Len(s) - Len(suffix) + 1, Len(s)) = suffix

\* s[n:]
DropFirst(s, n) == SubSeq(s, n + 1, Len(s))

\* s[1:-1]  (empty for a string of one character)
Inner(s) == SubSeq(s, 2, Len(s) - 1)

\* str.split(sep) for a one-character separator: always at least one piece
RECURSIVE SplitFrom(_, _, _)
SplitFrom(s, sep, piece) ==
    IF s = <<>> THEN <<piece>>
    ELSE IF Head(s) = sep THEN <<piece>> \o SplitFrom(Tail(s), sep, <<>>)
    ELSE SplitFrom(Tail(s), sep, Append(piece, Head(s)))

Split(s, sep) == SplitFrom(s, sep, <<>>)

Range(s) == {s[i] : i \in 1..Len(s)}

\* re.match(pattern, s) for patterns built from literal characters, `.`,
\* a backslash escape, a leading `^` and a trailing `$`: the match is
\* anchored at the start of s and may end anywhere in it.
RECURSIVE MatchHere(_, _)
MatchHere(p, s) ==
    IF p = <<>> THEN TRUE
    ELSE IF p = <<"$">> THEN s = <<>>
    ELSE IF Head(p) = "\\" /\ Len(p) >= 2
         THEN s # <<>> /\ Head(s) = p[2] /\ MatchHere(DropFirst(p, 2), Tail(s))
    ELSE IF Head(p) = "."
         THEN s # <<>> /\ MatchHere(Tail(p), Tail(s))
    ELSE s # <<>> /\ Head(s) = Head(p) /\ MatchHere(Tail(p), Tail(s))

re_match(pattern, s) ==
    IF pattern # <<>> /\ Head(pattern) = "^"
    THEN MatchHere(Tail(pattern), s)
    ELSE MatchHere(pattern, s)

-----------------------------------------------------------------------------
(* filter_parts *)

\* one selector against one part name (lines 109-114)
SelectorMatches(filter, name) ==
    IF StartsWith(filter, <<"/">>) /\ EndsWith(filter, <<"/">>)
    THEN re_match(Inner(filter), name)
    ELSE filter = name

\* the inner loop (lines 108-114): one append per selector that matches
RECURSIVE AppendMatches(_, _, _)
AppendMatches(acc, part, selectors) ==
    IF selectors = {} THEN acc
    ELSE LET filter == CHOOSE x \in selectors : TRUE
         IN AppendMatches(IF SelectorMatches(filter, part.name)
                          THEN Append(acc, part) ELSE acc,
                          part, selectors \ {filter})

\* the outer loop (lines 106-107)
RECURSIVE FilterLoop(_, _, _)
FilterLoop(acc, ps, selectors) ==
    IF ps = <<>> THEN acc
    ELSE FilterLoop(AppendMatches(acc, Head(ps), selectors), Tail(ps), selectors)

filter_parts(ps, selectors) ==
    IF Cardinality(selectors) = 0 THEN ps
    ELSE FilterLoop(<<>>, ps, selectors)

-----------------------------------------------------------------------------
(* get_parts: the extraction of one file's parts (lines 131-142) *)

Last(s) == s[Len(s)]

\* line 136 with a fault: the section's own size added instead of the size
\* of the part before it
NextOffsetOffByOne(part_offsets, part_lengths, data_size) ==
    Last(part_offsets) + data_size

\* line 136: the offset of the next section
NextOffset(part_offsets, part_lengths, data_size) ==
    Last(part_offsets) + Last(part_lengths)

\* lines 134-137; lists is [names, offsets, lengths]
RECURSIVE SectionLoop(_, _)
SectionLoop(lists, sections) ==
    IF sections = <<>> THEN lists
    ELSE LET s == Head(sections)
         IN SectionLoop(
                [names   |-> Append(lists.names, s.name),
                 offsets |-> Append(lists.offsets,
                                    NextOffset(lists.offsets, lists.lengths,
                                               s.data_size)),
                 lengths |-> Append(lists.lengths, s.data_size)],
                Tail(sections))

\* line 141: zip
Zip(lists) ==
    [i \in 1..Len(lists.names) |->
        [name |-> lists.names[i], offset |-> lists.offsets[i],
         length |-> lists.lengths[i]]]

KeepPart(p) == p.length > 0

\* lines 131-142
ExtractParts(elf) ==
    LET l0 == [names |-> <<Ehdr>>, offsets |-> <<0>>,
               lengths |-> <<elf.e_ehsize>>]
        l1 == SectionLoop(l0, elf.sections)
        l2 == [names   |-> l1.names \o <<Phdr, Shdr>>,
               offsets |-> l1.offsets \o <<elf.e_phoff, elf.e_shoff>>,
               lengths |-> l1.lengths \o <<elf.e_phentsize, elf.e_shentsize>>]
    IN SelectSeq(Zip(l2), KeepPart)

-----------------------------------------------------------------------------
(* get_color *)

num_colors == 3600

\* int(hashlib.md5(text.encode()).hexdigest(), 16), kept within the integer
\* range by reducing it modulo 3600 * 500000, which leaves every residue
\* modulo num_colors as it is.
md5_int(text) ==
    CASE text = Ehdr        -> 614522583
      [] text = Phdr        -> 48770711
      [] text = Shdr        -> 440724513
      [] text = dot_text    -> 20985857
      [] text = dot_bss     -> 1743231826
      [] text = dot_comment -> 1611276190
      [] text = empty_name  -> 1799178366

\* line 164 with a fault: the palette slot taken from the order of arrival
FreshColorByArrival(saved, text) == Cardinality(DOMAIN saved) % num_colors

\* line 164: the palette slot of a name not yet cached
FreshColor(saved, text) == md5_int(text) % num_colors

\* lines 161-166: the colour returned and the cache afterwards.  A colour is
\* named by its index into the palette `colors`.
get_color(saved, text) ==
    IF text \in DOMAIN saved
    THEN [color |-> saved[text], saved |-> saved]
    ELSE LET color == FreshColor(saved, text)
         IN [color |-> color,
             saved |-> [t \in DOMAIN saved \cup {text} |->
                           IF t = text THEN color ELSE saved[t]]]

-----------------------------------------------------------------------------
(* Variable groups *)

argsVars == <<argv, argi, result, current_filename, global_strip,
              global_selected_parts>>
pipeVars == <<filenames, options, elf_files, idx, extracted, parts,
              legend_data, max_length, shape>>
registryVars == <<calls, last_text, last_color>>

EmptyDict == [x \in {} |-> x]

ArgsIdle ==
    /\ argv = <<>>
    /\ argi = 1
    /\ result = EmptyDict
    /\ current_filename = <<>>
    /\ global_strip = FALSE
    /\ global_selected_parts = {}

PipeIdle ==
    /\ filenames = <<>>
    /\ options = EmptyDict
    /\ elf_files = EmptyDict
    /\ idx = 1
    /\ extracted = EmptyDict
    /\ parts = EmptyDict
    /\ legend_data = EmptyDict
    /\ max_length = 0
    /\ shape = EmptyDict

RegistryIdle ==
    /\ calls = 0
    /\ last_text = <<>>
    /\ last_color = 0

NotEnded ==
    /\ exit_status = -1
    /\ exception = ""

\* error(): the message is printed and the process exits with status 1
Fatal ==
    /\ pc' = "fatal"
    /\ exit_status' = 1
    /\ UNCHANGED exception

-----------------------------------------------------------------------------
(* parse_args *)

\* class PlottingOptions, line 32: the class attribute `strip`
PlottingOptions_strip == FALSE

\* PlottingOptions(): an instance with an empty __dict__
PlottingOptions == EmptyDict

\* obj.strip: the instance attribute, else the class attribute
GetStrip(obj) ==
    IF "strip" \in DOMAIN obj THEN obj["strip"] ELSE PlottingOptions_strip

\* obj.strip = value: always an instance attribute
SetStrip(obj, value) == [a \in {"strip"} |-> value]

\* obj.selected_parts: no method assigns it on an instance, so it is always
\* the one set object held by the class (line 31)
GetSelectedParts(obj, class_selected_parts) == class_selected_parts

\* lines 263-268: the selectors and the strip flag a `+` token carries
current_selected_parts(arg) ==
    IF StartsWith(arg, <<"+", "+">>)
    THEN Split(DropFirst(arg, 2), ",")
    ELSE Split(DropFirst(arg, 1), ",")

current_strip(arg) == StartsWith(arg, <<"+", "+">>)

\* os.path.isfile(arg)
isfile(arg) == arg \in DOMAIN disk

\* line 274 with a fault: the flag set on every instance made so far, as a
\* class attribute would be
StripTargetsEveryFile(current, keys) == keys

\* line 274: the instances whose strip flag a file-scoped token updates
StripTargets(current, keys) == {current}

\* lines 254-255
NoArguments ==
    /\ pc = "parse_args"
    /\ argv = <<>>
    /\ Fatal
    /\ UNCHANGED <<argsVars, selected_parts, disk, pipeVars, saved_colors,
                   registryVars>>

\* lines 261-274 with no current filename: a global `+` token
GlobalSelection ==
    /\ pc = "parse_args"
    /\ argi <= Len(argv)
    /\ StartsWith(argv[argi], <<"+">>)
    /\ current_filename = <<>>
    /\ global_selected_parts' =
           global_selected_parts \cup Range(current_selected_parts(argv[argi]))
    /\ global_strip' = (global_strip \/ current_strip(argv[argi]))
    /\ argi' = argi + 1
    /\ UNCHANGED <<pc, argv, result, current_filename, selected_parts, disk,
                   pipeVars, saved_colors, registryVars, exit_status,
                   exception>>

\* lines 261-274 with a current filename: a file-scoped `+` token
FileSelection ==
    /\ pc = "parse_args"
    /\ argi <= Len(argv)
    /\ StartsWith(argv[argi], <<"+">>)
    /\ current_filename # <<>>
    /\ selected_parts' =
           GetSelectedParts(result[current_filename], selected_parts)
               \cup Range(current_selected_parts(argv[argi]))
    /\ result' =
           [f \in DOMAIN result |->
               IF f \in StripTargets(current_filename, DOMAIN result)
               THEN SetStrip(result[f],
                             GetStrip(result[f]) \/ current_strip(argv[argi]))
               ELSE result[f]]
    /\ argi' = argi + 1
    /\ UNCHANGED <<pc, argv, current_filename, global_strip,
                   global_selected_parts, disk, pipeVars, saved_colors,
                   registryVars, exit_status, exception>>

\* lines 277-281: a new filename
NewFilename ==
    /\ pc = "parse_args"
    /\ argi <= Len(argv)
    /\ ~StartsWith(argv[argi], <<"+">>)
    /\ isfile(argv[argi])
    /\ argv[argi] \notin DOMAIN result
    /\ current_filename' = argv[argi]
    /\ result' = [f \in DOMAIN result \cup {argv[argi]} |->
                     IF f = argv[argi] THEN PlottingOptions ELSE result[f]]
    /\ argi' = argi + 1
    /\ UNCHANGED <<pc, argv, global_strip, global_selected_parts,
                   selected_parts, disk, pipeVars, saved_colors, registryVars,
                   exit_status, exception>>

\* lines 278-279
FilenameTwice ==
    /\ pc = "parse_args"
    /\ argi <= Len(argv)
    /\ ~StartsWith(argv[argi], <<"+">>)
    /\ isfile(argv[argi])
    /\ argv[argi] \in DOMAIN result
    /\ Fatal
    /\ UNCHANGED <<argsVars, selected_parts, disk, pipeVars, saved_colors,
                   registryVars>>

\* lines 282-283
NotAValidFile ==
    /\ pc = "parse_args"
    /\ argi <= Len(argv)
    /\ ~StartsWith(argv[argi], <<"+">>)
    /\ ~isfile(argv[argi])
    /\ Fatal
    /\ UNCHANGED <<argsVars, selected_parts, disk, pipeVars, saved_colors,
                   registryVars>>

\* lines 284-288: the global selection is merged into every file, and
\* parse_args returns
MergeGlobals ==
    /\ pc = "parse_args"
    /\ argv # <<>>
    /\ argi = Len(argv) + 1
    /\ IF Cardinality(global_selected_parts) # 0
       THEN /\ selected_parts' =
                   IF DOMAIN result = {} THEN selected_parts
                   ELSE selected_parts \cup global_selected_parts
            /\ result' = [f \in DOMAIN result |->
                             SetStrip(result[f], GetStrip(result[f]) \/ global_strip)]
       ELSE UNCHANGED <<selected_parts, result>>
    /\ pc' = "parsed"
    /\ UNCHANGED <<argv, argi, current_filename, global_strip,
                   global_selected_parts, disk, pipeVars, saved_colors,
                   registryVars, exit_status, exception>>

\* the argument lists explored: filenames that exist, one that does not,
\* and `+` / `++` tokens
fa == <<"a">>
fb == <<"b">>
TokenPool ==
    { fa, fb, <<"c">>,
      <<"+", "x">>, <<"+", "+", "y">>, <<"+", "x", ",", "z">>, <<"+", "+">> }

RECURSIVE SeqsUpTo(_, _)
SeqsUpTo(S, n) ==
    IF n = 0 THEN {<<>>}
    ELSE LET shorter == SeqsUpTo(S, n - 1)
         IN shorter \cup {Append(s, x) : s \in shorter, x \in S}

InitArgs ==
    /\ pc = "parse_args"
    /\ argv \in SeqsUpTo(TokenPool, MaxArgs)
    /\ argi = 1
    /\ result = EmptyDict
    /\ current_filename = <<>>
    /\ global_strip = FALSE
    /\ global_selected_parts = {}
    /\ selected_parts = {}
    /\ disk = [f \in {fa, fb} |-> "file"]
    /\ saved_colors = EmptyDict
    /\ PipeIdle
    /\ RegistryIdle
    /\ NotEnded

NextArgs ==
    \/ NoArguments
    \/ GlobalSelection
    \/ FileSelection
    \/ NewFilename
    \/ FilenameTwice
    \/ NotAValidFile
    \/ MergeGlobals

SpecArgs == InitArgs /\ [][NextArgs]_vars

-----------------------------------------------------------------------------
(* The files on disk *)

\* what pyelftools reports of a section: its name and data_size.  data_size
\* is sh_size, which for a section that occupies no file space (.bss,
\* SHT_NOBITS) is its size in memory.
SectionPool ==
    { [name |-> dot_text,    data_size |-> 200],
      [name |-> dot_bss,     data_size |-> 1000],
      [name |-> dot_comment, data_size |-> 20],
      [name |-> empty_name,  data_size |-> 0] }

\* header fields of a 64-bit relocatable object, a 64-bit executable and a
\* 32-bit executable
HeaderLayouts ==
    { [e_ehsize |-> 64, e_phoff |-> 0,  e_phentsize |-> 0,  e_shentsize |-> 64],
      [e_ehsize |-> 64, e_phoff |-> 64, e_phentsize |-> 56, e_shentsize |-> 64],
      [e_ehsize |-> 52, e_phoff |-> 52, e_phentsize |-> 32, e_shentsize |-> 40] }

\* the bytes of a file that belong to no section modelled here (string and
\* symbol tables, alignment)
OtherBytes == {100, 1400}

\* the bytes a section occupies in the file: none for .bss
FileBytes(section) ==
    IF section.name = dot_bss THEN 0 ELSE section.data_size

RECURSIVE SumFileBytes(_)
SumFileBytes(sections) ==
    IF sections = <<>> THEN 0
    ELSE FileBytes(Head(sections)) + SumFileBytes(Tail(sections))

\* a well-formed file: the header, the program header table (one entry, if
\* any), the sections' bytes, `other` bytes, and the section header table
\* with one entry per section at the end.  A file without sections has no
\* section header table.
Image(layout, sections, other) ==
    LET table_at == layout.e_ehsize + layout.e_phentsize
                        + SumFileBytes(sections) + other
        has_table == sections # <<>>
        entsize == IF has_table THEN layout.e_shentsize ELSE 0
    IN [valid       |-> TRUE,
        size        |-> table_at + Len(sections) * entsize,
        e_ehsize    |-> layout.e_ehsize,
        sections    |-> sections,
        e_phoff     |-> layout.e_phoff,
        e_phentsize |-> layout.e_phentsize,
        e_shoff     |-> IF has_table THEN table_at ELSE 0,
        e_shentsize |-> entsize]

\* a file that is not an ELF file
NotElf ==
    [valid |-> FALSE, size |-> 600, e_ehsize |-> 0, sections |-> <<>>,
     e_phoff |-> 0, e_phentsize |-> 0, e_shoff |-> 0, e_shentsize |-> 0]

FileImages ==
    {NotElf} \cup
    { Image(layout, sections, other) :
        layout \in HeaderLayouts,
        sections \in SeqsUpTo(SectionPool, MaxSections),
        other \in OtherBytes }

Section(name) == CHOOSE s \in SectionPool : s.name = name

\* the images a run over two files draws from
PairImages ==
    {NotElf} \cup
    { Image(layout, sections, 100) :
        layout \in {l \in HeaderLayouts : l.e_ehsize = 64},
        sections \in { <<Section(empty_name), Section(dot_text),
                         Section(dot_comment)>>,
                       <<Section(dot_comment)>> } }

\* the selectors explored: two exact names and two regular expressions
sel_re_te == <<"/", ".", "t", "e", "/">>
sel_re_bss == <<"/", "^", "\\", ".", "b", "s", "s", "$", "/">>
SelectorPool == {dot_text, dot_comment, sel_re_te, sel_re_bss}

-----------------------------------------------------------------------------
(* main, after parse_args has returned *)

ElfFileData(image) ==
    [byte_data |-> [length |-> image.size, channels |-> 1],
     elf_data  |-> image]

With(dict, key, value) ==
    [k \in DOMAIN dict \cup {key} |-> IF k = key THEN value ELSE dict[k]]

\* the loop over the files of a stage moves on, or the stage ends
Advance(next_pc) ==
    IF idx < Len(filenames)
    THEN /\ idx' = idx + 1
         /\ UNCHANGED pc
    ELSE /\ idx' = 1
         /\ pc' = next_pc

\* an uncaught exception ends the process with a traceback and status 1
Raise(name) ==
    /\ pc' = "crashed"
    /\ exception' = name
    /\ exit_status' = 1

\* load_elf_files, lines 57-63: one file
LoadFile ==
    /\ pc = "load"
    /\ disk[filenames[idx]].valid
    /\ elf_files' = With(elf_files, filenames[idx],
                         ElfFileData(disk[filenames[idx]]))
    /\ Advance("get_parts")
    /\ UNCHANGED <<argsVars, selected_parts, filenames, options, disk,
                   extracted, parts, saved_colors, legend_data, max_length,
                   shape, exit_status, exception, registryVars>>

\* load_elf_files, lines 64-65
NotAValidElfFile ==
    /\ pc = "load"
    /\ ~disk[filenames[idx]].valid
    /\ Fatal
    /\ UNCHANGED <<argsVars, selected_parts, disk, pipeVars, saved_colors,
                   registryVars>>

\* line 144 with a fault: the check left out
NeverEmpty(ps) == FALSE

\* line 144: the check that ends the run
IsEmptySelection(ps) == Len(ps) = 0

\* get_parts, lines 129-146: one file whose selection is not empty
GetParts ==
    /\ pc = "get_parts"
    /\ LET f  == filenames[idx]
           ex == ExtractParts(elf_files[f].elf_data)
           ps == filter_parts(ex, GetSelectedParts(options[f], selected_parts))
       IN /\ ~IsEmptySelection(ps)
          /\ extracted' = With(extracted, f, ex)
          /\ parts' = With(parts, f, ps)
    /\ Advance("colorize")
    /\ UNCHANGED <<argsVars, selected_parts, filenames, options, disk,
                   elf_files, saved_colors, legend_data, max_length, shape,
                   exit_status, exception, registryVars>>

\* get_parts, lines 144-145: no part of the file matches the selection
NoPartsMatch ==
    /\ pc = "get_parts"
    /\ LET f  == filenames[idx]
           ex == ExtractParts(elf_files[f].elf_data)
           ps == filter_parts(ex, GetSelectedParts(options[f], selected_parts))
       IN /\ IsEmptySelection(ps)
          /\ extracted' = With(extracted, f, ex)
    /\ Fatal
    /\ UNCHANGED <<argsVars, selected_parts, filenames, options, disk,
                   elf_files, idx, parts, saved_colors, legend_data,
                   max_length, shape, registryVars>>

\* colorize_data, lines 187-190: [legend, saved] after the parts ps
RECURSIVE ColorLoop(_, _)
ColorLoop(acc, ps) ==
    IF ps = <<>> THEN acc
    ELSE LET got == get_color(acc.saved, Head(ps).name)
         IN ColorLoop([legend |-> Append(acc.legend,
                                         [name  |-> Head(ps).name,
                                          color |-> got.color]),
                       saved  |-> got.saved],
                      Tail(ps))

\* colorize_data, lines 183-192: one file
Colorize ==
    /\ pc = "colorize"
    /\ LET f   == filenames[idx]
           out == ColorLoop([legend |-> <<>>, saved |-> saved_colors], parts[f])
       IN /\ saved_colors' = out.saved
          /\ legend_data' = With(legend_data, f, out.legend)
          /\ elf_files' =
                 [elf_files EXCEPT ![f].byte_data.channels = 3]
    /\ Advance("strip")
    /\ UNCHANGED <<argsVars, selected_parts, filenames, options, disk,
                   extracted, parts, max_length, shape, exit_status,
                   exception, registryVars>>

Min(a, b) == IF a <= b THEN a ELSE b

\* len(bytes[offset : offset+length]) for a buffer of n rows: a slice ends
\* where the buffer ends
SliceLen(n, offset, length) == Min(offset + length, n) - Min(offset, n)

\* strip_data, lines 210-212: the rows of the concatenated slices
RECURSIVE StrippedLen(_, _)
StrippedLen(n, ps) ==
    IF ps = <<>> THEN 0
    ELSE SliceLen(n, Head(ps).offset, Head(ps).length) + StrippedLen(n, Tail(ps))

\* strip_data, lines 206-214: one file
Strip ==
    /\ pc = "strip"
    /\ LET f == filenames[idx]
           n == elf_files[f].byte_data.length
       IN elf_files' =
              [elf_files EXCEPT ![f].byte_data.length =
                  IF GetStrip(options[f]) THEN StrippedLen(n, parts[f]) ELSE n]
    /\ Advance("pad")
    /\ UNCHANGED <<argsVars, selected_parts, filenames, options, disk,
                   extracted, parts, saved_colors, legend_data, max_length,
                   shape, exit_status, exception, registryVars>>

\* get_max_length, lines 75-80
RECURSIVE MaxLoop(_, _)
MaxLoop(max, sizes) ==
    IF sizes = <<>> THEN max
    ELSE MaxLoop(IF Head(sizes) > max THEN Head(sizes) ELSE max, Tail(sizes))

get_max_length(sizes) == MaxLoop(0, sizes)

\* main, lines 309-311: every buffer is padded to the maximum length
Pad ==
    /\ pc = "pad"
    /\ max_length' =
           get_max_length([i \in 1..Len(filenames) |->
                              elf_files[filenames[i]].byte_data.length])
    /\ elf_files' =
           [f \in DOMAIN elf_files |->
               [elf_files[f] EXCEPT !.byte_data.length = max_length']]
    /\ pc' = "plot"
    /\ UNCHANGED <<argsVars, selected_parts, filenames, options, disk, idx,
                   extracted, parts, saved_colors, legend_data, shape,
                   exit_status, exception, registryVars>>

\* int(math.sqrt(n)): the largest k with k*k <= n
RECURSIVE SqrtFrom(_, _)
SqrtFrom(k, n) == IF (k + 1) * (k + 1) > n THEN k ELSE SqrtFrom(k + 1, n)

isqrt(n) == SqrtFrom(0, n)

\* int(s / math.sqrt(2) / 8): the largest k with 8 * sqrt(2) * k <= s, that
\* is with 128 * k * k <= s * s
RECURSIVE EighthsFrom(_, _)
EighthsFrom(k, s) ==
    IF 128 * (k + 1) * (k + 1) > s * s THEN k ELSE EighthsFrom(k + 1, s)

\* lines 233-234
Width(length) == EighthsFrom(0, isqrt(length)) * 8

\* get_section_by_name(".comment") returns a section (not None)
HasComment(elf) ==
    \E i \in 1..Len(elf.sections) : elf.sections[i].name = dot_comment

\* plot_elf_files, lines 230-235: w is 0 and len / w raises
PlotDivisionByZero ==
    /\ pc = "plot"
    /\ Width(elf_files[filenames[idx]].byte_data.length) = 0
    /\ Raise("ZeroDivisionError")
    /\ UNCHANGED <<argsVars, selected_parts, disk, pipeVars, saved_colors,
                   registryVars>>

\* plot_elf_files, lines 230-239: the local copy of the buffer is cut to
\* w*h rows, reshaped to (h, w, 3) and shown, and None.data() raises
PlotNoComment ==
    /\ pc = "plot"
    /\ LET f == filenames[idx]
           n == elf_files[f].byte_data.length
           w == Width(n)
       IN /\ w # 0
          /\ ~HasComment(elf_files[f].elf_data)
          /\ shape' = With(shape, f, [h |-> n \div w, w |-> w])
    /\ Raise("AttributeError")
    /\ UNCHANGED <<argsVars, selected_parts, filenames, options, disk,
                   elf_files, idx, extracted, parts, saved_colors,
                   legend_data, max_length, registryVars>>

\* plot_elf_files, lines 230-241: one file
PlotFile ==
    /\ pc = "plot"
    /\ LET f == filenames[idx]
           n == elf_files[f].byte_data.length
           w == Width(n)
       IN /\ w # 0
          /\ HasComment(elf_files[f].elf_data)
          /\ shape' = With(shape, f, [h |-> n \div w, w |-> w])
    /\ Advance("show")
    /\ UNCHANGED <<argsVars, selected_parts, filenames, options, disk,
                   elf_files, extracted, parts, saved_colors, legend_data,
                   max_length, exit_status, exception, registryVars>>

\* plot_elf_files, lines 242-244, and the return of main
Show ==
    /\ pc = "show"
    /\ pc' = "done"
    /\ exit_status' = 0
    /\ UNCHANGED <<argsVars, selected_parts, disk, pipeVars, saved_colors,
                   exception, registryVars>>

\* what parse_args can return for the files named: one selector set shared
\* by every file (the class attribute) and a strip flag per file
Stripping == SetStrip(PlottingOptions, TRUE)
NotStripping == SetStrip(PlottingOptions, FALSE)

Init ==
    /\ pc = "load"
    /\ ArgsIdle
    /\ selected_parts \in SUBSET SelectorPool
    /\ \/ /\ filenames = <<fa>>
          /\ disk \in [{fa} -> FileImages]
       \/ /\ filenames = <<fa, fb>>
          /\ disk \in [{fa, fb} -> PairImages]
    /\ options \in [DOMAIN disk -> {Stripping, NotStripping}]
    /\ elf_files = EmptyDict
    /\ idx = 1
    /\ extracted = EmptyDict
    /\ parts = EmptyDict
    /\ saved_colors = EmptyDict
    /\ legend_data = EmptyDict
    /\ max_length = 0
    /\ shape = EmptyDict
    /\ RegistryIdle
    /\ NotEnded

Next ==
    \/ LoadFile
    \/ NotAValidElfFile
    \/ GetParts
    \/ NoPartsMatch
    \/ Colorize
    \/ Strip
    \/ Pad
    \/ PlotDivisionByZero
    \/ PlotNoComment
    \/ PlotFile
    \/ Show

Spec == Init /\ [][Next]_vars

-----------------------------------------------------------------------------
(* Claims about parse_args, under SpecArgs *)

IsSelection(arg) == StartsWith(arg, <<"+">>)

\* the filename a token at position i is scoped to: the nearest filename
\* before it, or <<>> when the token comes before any filename
ScopeOf(i) ==
    LET before == {j \in 1..(i - 1) : ~IsSelection(argv[j])}
    IN IF before = {} THEN <<>>
       ELSE argv[CHOOSE j \in before : \A k \in before : k <= j]

ScopedTokens(f) ==
    {i \in 1..Len(argv) : IsSelection(argv[i]) /\ ScopeOf(i) = f}

GlobalTokens == ScopedTokens(<<>>)

SelectorsOf(tokens) ==
    UNION {Range(current_selected_parts(argv[i])) : i \in tokens}

\* C1: once parse_args has returned, every file's selector set is exactly
\* the selectors of the tokens scoped to that file plus the global ones.
C1_SelectorsStayInScope ==
    pc = "parsed" =>
        \A f \in DOMAIN result :
            GetSelectedParts(result[f], selected_parts)
                = SelectorsOf(ScopedTokens(f) \cup GlobalTokens)

\* C9: once parse_args has returned, a file's strip flag is true exactly
\* when a `++` token was scoped to that file or came before any filename.
C9_StripFlagInScope ==
    pc = "parsed" =>
        \A f \in DOMAIN result :
            GetStrip(result[f]) <=>
                \E i \in ScopedTokens(f) \cup GlobalTokens :
                    StartsWith(argv[i], <<"+", "+">>)

\* C9's case: two files, a `++` token scoped to the first and none global,
\* and only the first file strips.
C9_Witness ==
    /\ pc = "parsed"
    /\ DOMAIN result = {fa, fb}
    /\ \E i \in ScopedTokens(fa) : StartsWith(argv[i], <<"+", "+">>)
    /\ ScopedTokens(fb) # {}
    /\ GetStrip(result[fa])
    /\ ~GetStrip(result[fb])

-----------------------------------------------------------------------------
(* Claims about the run, under Spec *)

RECURSIVE SumLengths(_)
SumLengths(ps) ==
    IF ps = <<>> THEN 0 ELSE Head(ps).length + SumLengths(Tail(ps))

\* the data sizes of the first k sections, added up
RECURSIVE SizeOfFirst(_, _)
SizeOfFirst(sections, k) ==
    IF k = 0 THEN 0
    ELSE SizeOfFirst(sections, k - 1) + sections[k].data_size

\* the part list C4 describes, zero-length parts included
LayoutOf(elf) ==
    <<[name |-> Ehdr, offset |-> 0, length |-> elf.e_ehsize]>>
    \o [i \in 1..Len(elf.sections) |->
           [name   |-> elf.sections[i].name,
            offset |-> elf.e_ehsize + SizeOfFirst(elf.sections, i - 1),
            length |-> elf.sections[i].data_size]]
    \o <<[name |-> Phdr, offset |-> elf.e_phoff, length |-> elf.e_phentsize],
         [name |-> Shdr, offset |-> elf.e_shoff, length |-> elf.e_shentsize]>>

NonEmptyOnly(layout) ==
    LET keep == {i \in 1..Len(layout) : layout[i].length # 0}
        \* the position in layout of the n-th kept part
        nth[n \in 1..Cardinality(keep)] ==
            CHOOSE i \in keep : Cardinality({j \in keep : j <= i}) = n
    IN [n \in 1..Cardinality(keep) |-> layout[nth[n]]]

SelectedBy(selectors, name) ==
    \E filter \in selectors : SelectorMatches(filter, name)

\* the sub-list of ps whose names some selector matches, each part once
SubListSelected(ps, selectors) ==
    LET keep == {i \in 1..Len(ps) : SelectedBy(selectors, ps[i].name)}
        nth[n \in 1..Cardinality(keep)] ==
            CHOOSE i \in keep : Cardinality({j \in keep : j <= i}) = n
    IN [n \in 1..Cardinality(keep) |-> ps[nth[n]]]

\* the files whose buffer strip_data has been through and padding has not
Stripped ==
    IF pc = "strip" THEN {filenames[i] : i \in 1..(idx - 1)}
    ELSE IF pc = "pad" THEN Range(filenames)
    ELSE {}

\* C2: with a non-empty selector set, the filtered list is the sub-list of
\* the extracted parts that some selector matches, in order, each part
\* once.
C2_FilterKeepsEachPartOnce ==
    \A f \in DOMAIN parts :
        selected_parts # {} =>
            parts[f] = SubListSelected(extracted[f], selected_parts)

\* C3: after strip_data a file's buffer is as long as its filtered parts
\* together when its strip flag is set, and as long as the file otherwise.
C3_StrippedLength ==
    \A f \in Stripped :
        elf_files[f].byte_data.length =
            IF GetStrip(options[f]) THEN SumLengths(parts[f])
            ELSE disk[f].size

\* C4: the extracted parts are Ehdr at 0, every section at the header size
\* plus the sizes of the sections before it, then Phdr and Shdr at their
\* own offsets, without the zero-length ones; their lengths add up to the
\* header size, the section sizes and the two entry sizes.
C4_ExtractedLayout ==
    \A f \in DOMAIN extracted :
        LET elf == elf_files[f].elf_data
        IN /\ extracted[f] = NonEmptyOnly(LayoutOf(elf))
           /\ SumLengths(extracted[f]) =
                  elf.e_ehsize + SizeOfFirst(elf.sections, Len(elf.sections))
                      + elf.e_phentsize + elf.e_shentsize

\* C4's case: three sections, one of them empty and the last one after two
\* non-empty others, and a program header table.
C4_Witness ==
    \E f \in DOMAIN extracted :
        LET elf == elf_files[f].elf_data
        IN /\ Len(elf.sections) = 3
           /\ elf.sections[1].data_size > 0
           /\ elf.sections[2].data_size = 0
           /\ elf.sections[3].data_size > 0
           /\ elf.e_phentsize > 0
           /\ Len(extracted[f]) = 5

\* C5: no two of a file's extracted parts share a byte.
C5_PartsDoNotOverlap ==
    \A f \in DOMAIN extracted :
        \A i, j \in 1..Len(extracted[f]) :
            i < j =>
                \/ extracted[f][i].offset + extracted[f][i].length
                       <= extracted[f][j].offset
                \/ extracted[f][j].offset + extracted[f][j].length
                       <= extracted[f][i].offset

\* the input files none of whose parts the selection matches
EmptySelections ==
    {f \in Range(filenames) :
        /\ disk[f].valid
        /\ filter_parts(ExtractParts(disk[f]), selected_parts) = <<>>}

Untouched(f) == elf_files[f].byte_data = [length |-> disk[f].size, channels |-> 1]

\* C7: when the selection matches no part of some input file, the run never
\* gets past get_parts: it has ended with a non-zero status once get_parts
\* has seen that file, and no file is colorized, stripped, padded or
\* reshaped at any time.
C7_EmptySelectionIsFatal ==
    EmptySelections # {} =>
        /\ pc \in {"load", "get_parts", "fatal"}
        /\ pc = "fatal" => exit_status # 0
        /\ \A f \in EmptySelections : f \in DOMAIN extracted => pc = "fatal"
        /\ \A f \in DOMAIN elf_files : Untouched(f)
        /\ legend_data = EmptyDict
        /\ max_length = 0
        /\ shape = EmptyDict

\* C7's case: the first file passed get_parts, the selection matches no
\* part of the second, and the run has ended.
C7_Witness ==
    /\ filenames = <<fa, fb>>
    /\ fa \in DOMAIN parts
    /\ fb \in EmptySelections
    /\ fb \in DOMAIN extracted
    /\ pc = "fatal"

\* floor(sqrt(n) / sqrt(2) / 8) * 8: 8 times the largest k with
\* 128 * k * k <= n
RECURSIVE RealEighthsFrom(_, _)
RealEighthsFrom(k, n) ==
    IF 128 * (k + 1) * (k + 1) > n THEN k ELSE RealEighthsFrom(k + 1, n)

StatedWidth(n) == RealEighthsFrom(0, n) * 8

\* C8: plotting never fails on the shape computation, and every buffer
\* reshaped has w = floor(sqrt(length)/sqrt(2)/8)*8, a multiple of 8, and
\* h = floor(length/w), with w*h <= length, length being the padded length.
C8_NormalizationCompletes ==
    /\ exception # "ZeroDivisionError"
    /\ \A f \in DOMAIN shape :
           /\ shape[f].w = StatedWidth(max_length)
           /\ shape[f].w % 8 = 0
           /\ shape[f].w # 0
           /\ shape[f].h = max_length \div shape[f].w
           /\ shape[f].w * shape[f].h <= max_length

\* C10: a file without a .comment section that plotting has reached does
\* not end the run in a crash.
C10_MissingCommentTolerated ==
    \A f \in DOMAIN shape :
        ~HasComment(elf_files[f].elf_data) => pc \in {"plot", "show", "done"}

-----------------------------------------------------------------------------
(* The colour registry on its own: get_color called with any names in any *)
(* order                                                                   *)

PartNames == {Ehdr, Phdr, Shdr, dot_text, dot_bss, dot_comment, empty_name}

CallGetColor ==
    /\ pc = "registry"
    /\ calls < MaxCalls
    /\ \E text \in PartNames :
           LET got == get_color(saved_colors, text)
           IN /\ saved_colors' = got.saved
              /\ last_text' = text
              /\ last_color' = got.color
    /\ calls' = calls + 1
    /\ UNCHANGED <<pc, argsVars, selected_parts, disk, pipeVars, exit_status,
                   exception>>

InitColor ==
    /\ pc = "registry"
    /\ ArgsIdle
    /\ selected_parts = {}
    /\ disk = EmptyDict
    /\ PipeIdle
    /\ saved_colors = EmptyDict
    /\ RegistryIdle
    /\ NotEnded

NextColor == CallGetColor

SpecColor == InitColor /\ [][NextColor]_vars

PaletteSlot(text) == md5_int(text) % num_colors

\* every cached name, and the name of the last call, has the colour at
\* index md5(name) mod num_colors
ColorsByHash ==
    /\ \A t \in DOMAIN saved_colors : saved_colors[t] = PaletteSlot(t)
    /\ calls > 0 =>
           /\ last_text \in DOMAIN saved_colors
           /\ last_color = PaletteSlot(last_text)

\* a step neither evicts a cached name nor changes its colour
CacheKept ==
    \A t \in DOMAIN saved_colors :
        /\ t \in DOMAIN saved_colors'
        /\ saved_colors'[t] = saved_colors[t]

\* C6: after any calls of get_color every name has the palette entry at
\* index hash(name) mod the palette size, whatever was asked before, and a
\* cached entry is never evicted or reassigned.
C6_ColorsAreStable == []ColorsByHash /\ [][CacheKept]_vars

\* C6's case: more calls than cached names, so some name was asked for
\* again, and the last call returned .text's slot.
C6_Witness ==
    /\ calls = MaxCalls
    /\ Cardinality(DOMAIN saved_colors) = 3
    /\ last_text = dot_text
    /\ last_color = 1457

====
